---- MODULE Spec2Model ----
(***************************************************************************)
(* Narration batch generator of SKA-Animations: the four generate_audio.py *)
(* scripts.  Each script walks its list of (name, text) pairs, asks the    *)
(* edge-tts service for one clip per pair and saves it as                  *)
(* <output_dir>/<name>.mp3.  The model follows main() statement by         *)
(* statement; the file system and the speech service are the environment. *)
(***************************************************************************)
EXTENDS Integers, Sequences, FiniteSets, TLC

(* ---- bounds of the exploration ---- *)
MaxLen == 3        \* longest segment list explored
MaxRuns == 2       \* invocations of one script on the same file system

(* ---- the four copies of the script ---- *)
Scripts ==
  {"ska_animation_archive", "the_fridge_case",
   "the_three_laws_of_intelligence", "the_trilogy"}

\* output_dir: a literal in main(), or the default argument in the archive copy
output_dir(s) ==
  CASE s = "ska_animation_archive" -> "/home/coder/manim/audio"
    [] s = "the_fridge_case" -> "/home/coder/project/manim_fridge/audio"
    [] s = "the_three_laws_of_intelligence" ->
         "/home/coder/project/manim_the_three_laws_of_intelligence/audio"
    [] s = "the_trilogy" -> "/home/coder/project/manim_the_trilogy/audio"

\* which copies call os.makedirs(output_dir, exist_ok=True) in main()
HasMakedirs(s) == s # "ska_animation_archive"

VOICE == "en-US-AndrewNeural"

(* ---- inputs: segment identifiers, texts, audio the service may return ---- *)
Names == {"01_intro", "02_part1_title"}
Texts == {"text_a", "text_b"}
Audio == {"audio_x", "audio_y"}

RECURSIVE SeqsUpTo(_, _)
SeqsUpTo(S, n) ==
  IF n = 0 THEN {<<>>}
  ELSE LET shorter == SeqsUpTo(S, n - 1)
       IN shorter \cup {Append(q, e) : q \in {r \in shorter : Len(r) = n - 1}, e \in S}

\* the (name, text) tuples the short lists are built from: two that share an
\* identifier and differ in text, two that share a text and differ in identifier
SegmentValues ==
  {<<"01_intro", "text_a">>, <<"01_intro", "text_b">>, <<"02_part1_title", "text_a">>}

\* a narrations list: a sequence of (name, text) tuples
SegmentLists == SeqsUpTo(SegmentValues, MaxLen)

(* ---- the narrations list embedded in each copy: its identifiers ---- *)
narrations_archive ==
  <<"01_intro_classical", "02_intro_ska", "03_volume_element", "04_tensors",
    "05_learning_step", "06_dot_product", "07_density_intro", "08_density_sum",
    "09_density_implicit", "10_universality", "11_hubs", "12_gradient",
    "13_self_regulates", "14_finale">>

narrations_fridge ==
  <<"01_intro", "02_scenario", "03_undecided", "04_features", "05_knowledge",
    "06_sigmoid", "07_new_knowledge", "08_decision_clears", "09_why_matters",
    "10_forward", "11_probabilistic", "12_entropy", "13_binary_vs_ska",
    "14_takeaway">>

\* variant: an entry copied without renaming it
narrations_three_laws_copied ==
  <<"01_intro", "02_law1_principle", "03_law1_sigmoid", "04_law1_meaning",
    "05_law2_principle", "06_law2_formula", "07_law2_entropy",
    "08_law3_principle", "08_law3_principle", "10_law3_physics", "11_unified",
    "12_paradigm", "13_final">>

narrations_three_laws ==
  <<"01_intro", "02_law1_principle", "03_law1_sigmoid", "04_law1_meaning",
    "05_law2_principle", "06_law2_formula", "07_law2_entropy",
    "08_law3_principle", "09_law3_paths", "10_law3_physics", "11_unified",
    "12_paradigm", "13_final">>

narrations_trilogy ==
  <<"01_intro", "02_part1_title", "03_part1_content", "04_part1_equation",
    "05_part2_title", "06_part2_content", "07_part2_euler", "08_part3_title",
    "09_part3_content", "10_part3_geodesic", "11_insight", "12_unified",
    "13_unity", "14_final">>

EmbeddedNames(s) ==
  CASE s = "ska_animation_archive" -> narrations_archive
    [] s = "the_fridge_case" -> narrations_fridge
    [] s = "the_three_laws_of_intelligence" -> narrations_three_laws
    [] s = "the_trilogy" -> narrations_trilogy

\* the embedded list as (name, text) tuples; each spoken text, distinct per
\* entry in the source, is abbreviated to a token derived from its identifier
EmbeddedNarrations(s) ==
  [i \in DOMAIN EmbeddedNames(s) |->
     <<EmbeddedNames(s)[i], "narration " \o EmbeddedNames(s)[i]>>]

\* the clips explored as results of the service for a text: the service is
\* free to return either clip for "text_b", so that two syntheses of one text
\* may differ, and returns one clip for every other text
Clips(t) == IF t = "text_b" THEN Audio ELSE {"audio_x"}

(* ---- the animation scenes: the add_sound calls of each section method, ---- *)
(* ---- listed in the order construct() calls the sections                  ---- *)
SKAEntropyVideo ==
  <<<<"01_intro_classical", "02_intro_ska">>,                    \* intro_section
    <<"03_volume_element", "04_tensors", "05_learning_step",
      "06_dot_product">>,                                \* volume_element_section
    <<"07_density_intro", "08_density_sum",
      "09_density_implicit">>,                          \* density_encoding_section
    <<"10_universality">>,                                  \* universality_section
    <<"11_hubs", "12_gradient", "13_self_regulates", "14_finale">>, \* finale_section
    <<>>>>                                                             \* end_card

FridgeCaseVideo ==
  <<<<"01_intro">>,                                               \* intro_section
    <<"02_scenario", "03_undecided">>,                  \* undecided_state_section
    <<"04_features", "05_knowledge">>,                   \* input_features_section
    <<"06_sigmoid">>,                                  \* sigmoid_decision_section
    <<"07_new_knowledge", "08_decision_clears">>, \* knowledge_accumulates_section
    <<"09_why_matters", "10_forward", "11_probabilistic",
      "12_entropy">>,                                    \* why_it_matters_section
    <<"13_binary_vs_ska">>,                               \* binary_vs_ska_section
    <<"14_takeaway">>,                                         \* takeaway_section
    <<>>>>                                                             \* end_card

ThreeLawsVideo ==
  <<<<"01_intro">>,                                               \* intro_section
    <<"02_law1_principle", "03_law1_sigmoid",
      "04_law1_meaning">>,                          \* law1_probabilistic_decision
    <<"05_law2_principle", "06_law2_formula",
      "07_law2_entropy">>,                          \* law2_knowledge_accumulation
    <<"08_law3_principle", "09_law3_paths",
      "10_law3_physics">>,                           \* law3_entropic_least_action
    <<"11_unified", "12_paradigm", "13_final">>,                \* unified_section
    <<>>>>                                                             \* end_card

\* variant: construct() calls key_insight before part3_geometry
SKATrilogyVideoReordered ==
  <<<<"01_intro">>,
    <<"02_part1_title", "03_part1_content", "04_part1_equation">>,
    <<"05_part2_title", "06_part2_content", "07_part2_euler">>,
    <<"11_insight">>,
    <<"08_part3_title", "09_part3_content", "10_part3_geodesic">>,
    <<"12_unified">>,
    <<"13_unity", "14_final">>,
    <<>>>>

SKATrilogyVideo ==
  <<<<"01_intro">>,                                               \* intro_section
    <<"02_part1_title", "03_part1_content",
      "04_part1_equation">>,                                   \* part1_foundation
    <<"05_part2_title", "06_part2_content", "07_part2_euler">>,   \* part2_dynamics
    <<"08_part3_title", "09_part3_content",
      "10_part3_geodesic">>,                                     \* part3_geometry
    <<"11_insight">>,                                               \* key_insight
    <<"12_unified">>,                                            \* unified_vision
    <<"13_unity", "14_final">>,                              \* mathematical_unity
    <<>>>>                                                             \* end_card

\* the scene rendered from the clips of script s
Sections(s) ==
  CASE s = "ska_animation_archive" -> SKAEntropyVideo
    [] s = "the_fridge_case" -> FridgeCaseVideo
    [] s = "the_three_laws_of_intelligence" -> ThreeLawsVideo
    [] s = "the_trilogy" -> SKATrilogyVideo

\* variant: the fridge scene reads its clips from a directory next to it
AUDIO_DIR_relative(s) ==
  CASE s = "ska_animation_archive" -> "/home/coder/manim/audio"
    [] s = "the_fridge_case" -> "audio"
    [] s = "the_three_laws_of_intelligence" ->
         "/home/coder/project/manim_the_three_laws_of_intelligence/audio"
    [] s = "the_trilogy" -> "/home/coder/project/manim_the_trilogy/audio"

\* the directory the scene reads its clips from: AUDIO_DIR in the fridge scene,
\* the directory part of the path literals in the other three
AUDIO_DIR(s) ==
  CASE s = "ska_animation_archive" -> "/home/coder/manim/audio"
    [] s = "the_fridge_case" -> "/home/coder/project/manim_fridge/audio"
    [] s = "the_three_laws_of_intelligence" ->
         "/home/coder/project/manim_the_three_laws_of_intelligence/audio"
    [] s = "the_trilogy" -> "/home/coder/project/manim_the_trilogy/audio"

\* the argument of one add_sound call
SoundFile(s, clip) == AUDIO_DIR(s) \o "/" \o clip \o ".mp3"

VARIABLES
  script,      \* which copy of generate_audio.py runs
  narrations,  \* its list of (name, text) tuples
  creatable,   \* whether the file system lets output_dir be created
  dirKind,     \* what is at output_dir: "absent", "dir" or "file"
  files,       \* path -> content, for the files that exist
  pc,          \* position of main()
  idx,         \* 1-based position of the for loop in narrations
  inflight,    \* synthesis calls started and not yet returned
  calls,       \* synthesis calls made in this run, in order
  writes,      \* files completely written in this run, in order
  stdout,      \* lines printed in this run
  exc,         \* the exception that ended the run, or NoExc
  run,         \* number of the current invocation
  before,      \* output_dir and its files as they were when this run started
  dirsteps,    \* calls of os.makedirs made in this run
  scene,       \* the animation scene: position of construct(), sounds added
  history      \* outcome and directory listing at the end of each run

vars == <<script, narrations, creatable, dirKind, files, pc, idx, inflight,
          calls, writes, stdout, exc, run, before, dirsteps, scene, history>>

NoExc == [type |-> "none", seg |-> 0]

\* variant: the clip is saved under another extension
OutputFileWav(dir, name) == dir \o "/" \o name \o ".wav"

\* variant: every invocation after the first stamps its file names
OutputFileStamped(dir, name) ==
  dir \o "/" \o name \o (IF run = 1 THEN "" ELSE "_rerun") \o ".mp3"

\* variant: the file name carries the position of the segment in the list
OutputFileNumbered(dir, name) ==
  dir \o "/" \o ToString(idx) \o "_" \o name \o ".mp3"

\* f"{output_dir}/{name}.mp3"
OutputFile(dir, name) == dir \o "/" \o name \o ".mp3"

\* variant: the rate option is left out, so the library default applies
CommunicateDefaultRate(text) ==
  [text |-> text, voice |-> VOICE, rate |-> "+0%", pitch |-> "+0Hz"]

\* edge_tts.Communicate(text, VOICE, rate="-5%", pitch="+0Hz")
Communicate(text) ==
  [text |-> text, voice |-> VOICE, rate |-> "-5%", pitch |-> "+0Hz"]

\* variant: an existing file is kept, as with exclusive creation
WriteFileKeepFirst(fs, path, content) ==
  IF path \in DOMAIN fs THEN fs
  ELSE [p \in DOMAIN fs \cup {path} |-> IF p = path THEN content ELSE fs[p]]

\* variant: the directory is emptied before the file is written
WriteFileEmptiedDir(fs, path, content) == [p \in {path} |-> content]

\* open(path, "wb") and write: the file is created or replaced
WriteFile(fs, path, content) ==
  [p \in DOMAIN fs \cup {path} |-> IF p = path THEN content ELSE fs[p]]

\* construct() has not been called
SceneIdle == [pc |-> "idle", section |-> 1, cue |-> 1, sounds |-> <<>>]

AllPaths ==
  {OutputFile(output_dir(s), n) :
     s \in Scripts,
     n \in Names \cup UNION {{EmbeddedNames(t)[i] : i \in DOMAIN EmbeddedNames(t)} :
                               t \in Scripts}}

name(i) == narrations[i][1]
text(i) == narrations[i][2]

Init ==
  /\ run = 1
  /\ idx = 1
  /\ script \in Scripts
  /\ narrations \in SegmentLists
  /\ dirKind \in {"absent", "dir", "file"}
  /\ creatable \in IF dirKind = "absent" THEN BOOLEAN ELSE {TRUE}
  /\ files \in IF dirKind = "dir"
               THEN UNION {[S -> {[text |-> "old", audio |-> "old"]}] :
                             S \in SUBSET {OutputFile(output_dir(script), n) : n \in Names}}
               ELSE {<<>>}
  /\ pc = IF HasMakedirs(script) THEN "makedirs" ELSE "header"
  /\ inflight = {}
  /\ calls = <<>>
  /\ writes = <<>>
  /\ stdout = <<>>
  /\ exc = NoExc
  /\ before = [dirKind |-> dirKind, files |-> files]
  /\ dirsteps = 0
  /\ scene = SceneIdle
  /\ history = <<>>

\* the script as it is in the repository, run on its own embedded list
InitEmbedded ==
  /\ run = 1
  /\ idx = 1
  /\ script \in Scripts
  /\ narrations = EmbeddedNarrations(script)
  /\ dirKind \in {"absent", "dir", "file"}
  /\ creatable \in IF dirKind = "absent" THEN BOOLEAN ELSE {TRUE}
  /\ files \in IF dirKind = "dir"
               THEN UNION {[S -> {[text |-> "old", audio |-> "old"]}] :
                             S \in SUBSET {OutputFile(output_dir(script), name(1))}}
               ELSE {<<>>}
  /\ pc = IF HasMakedirs(script) THEN "makedirs" ELSE "header"
  /\ inflight = {}
  /\ calls = <<>>
  /\ writes = <<>>
  /\ stdout = <<>>
  /\ exc = NoExc
  /\ before = [dirKind |-> dirKind, files |-> files]
  /\ dirsteps = 0
  /\ scene = SceneIdle
  /\ history = <<>>

\* the listing of output_dir recorded when a run ends
Finished(outcome, fs) ==
  history' = Append(history, [outcome |-> outcome, names |-> DOMAIN fs])

\* os.makedirs(output_dir, exist_ok=True) returns
MakedirsOk ==
  /\ pc = "makedirs"
  /\ \/ dirKind = "dir"
     \/ dirKind = "absent" /\ creatable
  /\ dirKind' = "dir"
  /\ pc' = "header"
  /\ dirsteps' = dirsteps + 1
  /\ UNCHANGED <<script, narrations, creatable, files, idx, inflight, calls,
                 writes, stdout, exc, run, before, history, scene>>

\* variant: a failure of os.makedirs is caught and main() goes on
MakedirsRaisesIgnored ==
  /\ pc = "makedirs"
  /\ \/ dirKind = "file"
     \/ dirKind = "absent" /\ ~creatable
  /\ pc' = "header"
  /\ dirsteps' = dirsteps + 1
  /\ UNCHANGED <<script, narrations, creatable, dirKind, files, idx, inflight,
                 calls, writes, stdout, exc, run, before, history, scene>>

\* variant: exist_ok is left out, so an existing directory raises as well
MakedirsRaisesNoExistOk ==
  /\ pc = "makedirs"
  /\ \/ dirKind \in {"file", "dir"}
     \/ dirKind = "absent" /\ ~creatable
  /\ pc' = "failed"
  /\ exc' = [type |-> "OSError", seg |-> 0]
  /\ Finished("failed", files)
  /\ dirsteps' = dirsteps + 1
  /\ UNCHANGED <<script, narrations, creatable, dirKind, files, idx, inflight,
                 calls, writes, stdout, run, before, scene>>

\* variant: a failure of os.makedirs is reported as a warning and main() goes on
MakedirsRaisesWarns ==
  /\ pc = "makedirs"
  /\ \/ dirKind = "file"
     \/ dirKind = "absent" /\ ~creatable
  /\ stdout' = Append(stdout, "Warning: cannot create " \o output_dir(script))
  /\ pc' = "header"
  /\ dirsteps' = dirsteps + 1
  /\ UNCHANGED <<script, narrations, creatable, dirKind, files, idx, inflight,
                 calls, writes, exc, run, before, history, scene>>

\* os.makedirs raises: FileExistsError on a non-directory, OSError otherwise
MakedirsRaises ==
  /\ pc = "makedirs"
  /\ \/ dirKind = "file"
     \/ dirKind = "absent" /\ ~creatable
  /\ pc' = "failed"
  /\ exc' = [type |-> "OSError", seg |-> 0]
  /\ Finished("failed", files)
  /\ dirsteps' = dirsteps + 1
  /\ UNCHANGED <<script, narrations, creatable, dirKind, files, idx, inflight,
                 calls, writes, stdout, run, before, scene>>

\* the print calls before the loop
PrintHeader ==
  /\ pc = "header"
  /\ stdout' = stdout
                \o <<"Generating " \o ToString(Len(narrations)) \o " audio files...",
                     "Using voice: " \o VOICE>>
                \o (IF HasMakedirs(script)
                    THEN <<"Output directory: " \o output_dir(script)>>
                    ELSE <<>>)
                \o <<"">>
  /\ pc' = "loop"
  /\ UNCHANGED <<script, narrations, creatable, dirKind, files, idx, inflight,
                 calls, writes, exc, run, before, dirsteps, history, scene>>

\* variant: the call is started as a task and the loop does not await it
ForNextNoAwait ==
  /\ pc = "loop"
  /\ idx <= Len(narrations)
  /\ LET call == [seg |-> idx,
                  path |-> OutputFile(output_dir(script), name(idx)),
                  request |-> Communicate(text(idx))]
     IN /\ inflight' = inflight \cup {call}
        /\ calls' = Append(calls, call)
  /\ idx' = idx + 1
  /\ UNCHANGED <<script, narrations, creatable, dirKind, files, pc, writes,
                 stdout, exc, run, before, dirsteps, history, scene>>

\* variant: a segment whose file is already there is skipped
ForNextSkipExisting ==
  /\ pc = "loop"
  /\ idx <= Len(narrations)
  /\ LET call == [seg |-> idx,
                  path |-> OutputFile(output_dir(script), name(idx)),
                  request |-> Communicate(text(idx))]
     IN IF call.path \in DOMAIN files
        THEN /\ idx' = idx + 1
             /\ UNCHANGED <<inflight, calls, pc>>
        ELSE /\ inflight' = inflight \cup {call}
             /\ calls' = Append(calls, call)
             /\ pc' = "save"
             /\ UNCHANGED idx
  /\ UNCHANGED <<script, narrations, creatable, dirKind, files, writes,
                 stdout, exc, run, before, dirsteps, history, scene>>

\* variant: the service is asked twice for a segment, once to probe it
ForNextTwice ==
  /\ pc = "loop"
  /\ idx <= Len(narrations)
  /\ LET call == [seg |-> idx,
                  path |-> OutputFile(output_dir(script), name(idx)),
                  request |-> Communicate(text(idx))]
     IN /\ inflight' = inflight \cup {call}
        /\ calls' = calls \o <<call, call>>
  /\ pc' = "save"
  /\ UNCHANGED <<script, narrations, creatable, dirKind, files, idx, writes,
                 stdout, exc, run, before, dirsteps, history, scene>>

\* variant: the loop walks the list from its last segment to its first
ForNextReversed ==
  /\ pc = "loop"
  /\ idx <= Len(narrations)
  /\ LET seg == Len(narrations) + 1 - idx
         call == [seg |-> seg,
                  path |-> OutputFile(output_dir(script), name(seg)),
                  request |-> Communicate(text(seg))]
     IN /\ inflight' = inflight \cup {call}
        /\ calls' = Append(calls, call)
  /\ pc' = "save"
  /\ UNCHANGED <<script, narrations, creatable, dirKind, files, idx, writes,
                 stdout, exc, run, before, dirsteps, history, scene>>

\* for name, text in narrations: await generate_audio(name, text, output_dir)
\* up to the await of communicate.save(output_file)
ForNext ==
  /\ pc = "loop"
  /\ idx <= Len(narrations)
  /\ LET call == [seg |-> idx,
                  path |-> OutputFile(output_dir(script), name(idx)),
                  request |-> Communicate(text(idx))]
     IN /\ inflight' = inflight \cup {call}
        /\ calls' = Append(calls, call)
  /\ pc' = "save"
  /\ UNCHANGED <<script, narrations, creatable, dirKind, files, idx, writes,
                 stdout, exc, run, before, dirsteps, history, scene>>

\* variant: the coroutine of save is never awaited, so nothing is written
SaveReturnsNotAwaited ==
  /\ pc = "save"
  /\ \E call \in inflight : inflight' = inflight \ {call}
  /\ pc' = "print"
  /\ UNCHANGED <<script, narrations, creatable, dirKind, files, idx, calls,
                 writes, stdout, exc, run, before, dirsteps, history, scene>>

\* communicate.save(output_file) returns: the clip is on disk
SaveReturns ==
  /\ pc = "save"
  /\ dirKind = "dir"
  /\ \E call \in inflight :
       \E a \in Clips(call.request.text) :
       /\ files' = WriteFile(files, call.path,
                             [text |-> call.request.text, audio |-> a])
       /\ writes' = Append(writes, [seg |-> call.seg, path |-> call.path])
       /\ inflight' = inflight \ {call}
  /\ pc' = "print"
  /\ UNCHANGED <<script, narrations, creatable, dirKind, idx, calls, stdout,
                 exc, run, before, dirsteps, history, scene>>

\* variant: the loop catches the exception, reports it and goes on
SaveRaisesContinue ==
  /\ pc = "save"
  /\ \E call \in inflight :
       /\ exc' = [type |-> "ServiceError", seg |-> call.seg]
       /\ inflight' = inflight \ {call}
  /\ idx' = idx + 1
  /\ pc' = "loop"
  /\ UNCHANGED <<script, narrations, creatable, dirKind, files, calls, writes,
                 stdout, run, before, dirsteps, history, scene>>

\* variant: a failed save is tried again for the same segment
SaveRaisesRetry ==
  /\ pc = "save"
  /\ \E call \in inflight :
       /\ exc' = [type |-> "ServiceError", seg |-> call.seg]
       /\ inflight' = inflight \ {call}
  /\ pc' = "loop"
  /\ UNCHANGED <<script, narrations, creatable, dirKind, files, idx, calls,
                 writes, stdout, run, before, dirsteps, history, scene>>

\* variant: on failure the files this run has written are removed again
SaveRaisesRollback ==
  /\ pc = "save"
  /\ \E call \in inflight :
       /\ files' = [p \in DOMAIN files \ {writes[w].path : w \in DOMAIN writes}
                      |-> files[p]]
       /\ exc' = [type |-> "ServiceError", seg |-> call.seg]
       /\ inflight' = inflight \ {call}
  /\ pc' = "failed"
  /\ Finished("failed", files')
  /\ UNCHANGED <<script, narrations, creatable, dirKind, idx, calls, writes,
                 stdout, run, before, dirsteps, scene>>

\* communicate.save(output_file) raises; nothing in main() catches it
SaveRaises ==
  /\ pc = "save"
  /\ \E call \in inflight :
       /\ \/ /\ files' = files
             /\ exc' = [type |-> IF dirKind = "dir" THEN "ServiceError" ELSE "OSError",
                        seg |-> call.seg]
          \/ /\ dirKind = "dir"
             /\ files' = WriteFile(files, call.path,
                                   [text |-> call.request.text, audio |-> "partial"])
             /\ exc' = [type |-> "ServiceError", seg |-> call.seg]
       /\ inflight' = inflight \ {call}
  /\ pc' = "failed"
  /\ Finished("failed", files')
  /\ UNCHANGED <<script, narrations, creatable, dirKind, idx, calls, writes,
                 stdout, run, before, dirsteps, scene>>

\* variant: generate_audio returns without printing its line
PrintGeneratedSilent ==
  /\ pc = "print"
  /\ idx' = idx + 1
  /\ pc' = "loop"
  /\ UNCHANGED <<script, narrations, creatable, dirKind, files, inflight,
                 calls, writes, stdout, exc, run, before, dirsteps, history,
                 scene>>

\* print(f"Generated: {output_file}"), then the loop advances
PrintGenerated ==
  /\ pc = "print"
  /\ stdout' = Append(stdout,
                      "Generated: " \o OutputFile(output_dir(script), name(idx)))
  /\ idx' = idx + 1
  /\ pc' = "loop"
  /\ UNCHANGED <<script, narrations, creatable, dirKind, files, inflight,
                 calls, writes, exc, run, before, dirsteps, history, scene>>

\* variant: an empty list is rejected instead of being a no-op
ForExitRejectEmpty ==
  /\ pc = "loop"
  /\ idx > Len(narrations)
  /\ IF narrations = <<>>
     THEN /\ pc' = "failed"
          /\ exc' = [type |-> "ValueError", seg |-> 0]
          /\ Finished("failed", files)
          /\ UNCHANGED stdout
     ELSE /\ stdout' = stdout \o <<"", "All audio files generated successfully!">>
          /\ pc' = "done"
          /\ Finished("done", files)
          /\ UNCHANGED exc
  /\ UNCHANGED <<script, narrations, creatable, dirKind, files, idx, inflight,
                 calls, writes, run, before, dirsteps, scene>>

\* variant: a manifest of the generated clips is written at the end
ForExitWithManifest ==
  /\ pc = "loop"
  /\ idx > Len(narrations)
  /\ stdout' = stdout \o <<"", "All audio files generated successfully!">>
  /\ pc' = "done"
  /\ files' = WriteFile(files, output_dir(script) \o "/manifest.json",
                        [text |-> "manifest", audio |-> "none"])
  /\ Finished("done", files')
  /\ UNCHANGED <<script, narrations, creatable, dirKind, idx, inflight,
                 calls, writes, exc, run, before, dirsteps, scene>>

\* variant: after the loop main() awaits something that never completes
ForExitNeverReturns ==
  /\ pc = "loop"
  /\ idx > Len(narrations)
  /\ UNCHANGED vars

\* the loop is exhausted: the final prints, main() returns
ForExit ==
  /\ pc = "loop"
  /\ idx > Len(narrations)
  /\ stdout' = stdout \o <<"", "All audio files generated successfully!">>
  /\ pc' = "done"
  /\ Finished("done", files)
  /\ UNCHANGED <<script, narrations, creatable, dirKind, files, idx, inflight,
                 calls, writes, exc, run, before, dirsteps, scene>>

\* the script is invoked again: asyncio.run(main()) in a fresh process
Rerun ==
  /\ pc \in {"done", "failed"}
  /\ run < MaxRuns
  /\ run' = run + 1
  /\ pc' = IF HasMakedirs(script) THEN "makedirs" ELSE "header"
  /\ idx' = 1
  /\ inflight' = {}
  /\ calls' = <<>>
  /\ writes' = <<>>
  /\ stdout' = <<>>
  /\ exc' = NoExc
  /\ before' = [dirKind |-> dirKind, files |-> files]
  /\ dirsteps' = 0
  /\ UNCHANGED <<script, narrations, creatable, dirKind, files, history, scene>>

\* the variables of the generator script
genvars == <<script, narrations, creatable, dirKind, files, pc, idx, inflight,
             calls, writes, stdout, exc, run, before, dirsteps, history>>

\* the add_sound calls of the section construct() is in
Cues == Sections(script)[scene.section]

\* manim renders the scene after the generator has ended: construct() starts
Construct ==
  /\ scene.pc = "idle"
  /\ pc \in {"done", "failed"}
  /\ scene' = [scene EXCEPT !.pc = "construct"]
  /\ UNCHANGED genvars

\* self.add_sound(file) returns: the clip is part of the sound track
AddSound ==
  /\ scene.pc = "construct"
  /\ scene.cue <= Len(Cues)
  /\ SoundFile(script, Cues[scene.cue]) \in DOMAIN files
  /\ scene' = [scene EXCEPT !.cue = @ + 1,
                            !.sounds = Append(@, SoundFile(script, Cues[scene.cue]))]
  /\ UNCHANGED genvars

\* self.add_sound(file) raises: the file is missing, or it is a truncated clip
\* that the decoder rejects; nothing in construct() catches it
AddSoundRaises ==
  /\ scene.pc = "construct"
  /\ scene.cue <= Len(Cues)
  /\ LET file == SoundFile(script, Cues[scene.cue])
     IN \/ file \notin DOMAIN files
        \/ file \in DOMAIN files /\ files[file].audio = "partial"
  /\ scene' = [scene EXCEPT !.pc = "failed"]
  /\ UNCHANGED genvars

\* a section method returns: construct() calls the next one, or returns
SectionReturns ==
  /\ scene.pc = "construct"
  /\ scene.cue > Len(Cues)
  /\ scene' = IF scene.section < Len(Sections(script))
              THEN [scene EXCEPT !.section = @ + 1, !.cue = 1]
              ELSE [scene EXCEPT !.pc = "rendered"]
  /\ UNCHANGED genvars

\* one run of the generator on its embedded list, then the scene
NextScene ==
  \/ MakedirsOk
  \/ MakedirsRaises
  \/ PrintHeader
  \/ ForNext
  \/ SaveReturns
  \/ SaveRaises
  \/ PrintGenerated
  \/ ForExit
  \/ Construct
  \/ AddSound
  \/ AddSoundRaises
  \/ SectionReturns

Next ==
  \/ MakedirsOk
  \/ MakedirsRaises
  \/ PrintHeader
  \/ ForNext
  \/ SaveReturns
  \/ SaveRaises
  \/ PrintGenerated
  \/ ForExit
  \/ Rerun

Spec == Init /\ [][Next]_vars

SpecEmbedded == InitEmbedded /\ [][Next]_vars

SpecScene == InitEmbedded /\ [][NextScene]_vars

\* the steps main() takes by itself, and the completion of the awaited save
MainStep ==
  MakedirsOk \/ MakedirsRaises \/ PrintHeader \/ ForNext \/ PrintGenerated \/ ForExit
SaveCompletes == SaveReturns \/ SaveRaises

\* a started interpreter keeps executing main(), and every synthesis call
\* eventually returns or raises; whether the script is invoked again is open
FairSpec == Spec /\ WF_vars(MainStep) /\ WF_vars(SaveCompletes)

TypeOK ==
  /\ script \in Scripts
  /\ narrations \in SegmentLists \cup {EmbeddedNarrations(script)}
  /\ dirKind \in {"absent", "dir", "file"}
  /\ pc \in {"makedirs", "header", "loop", "save", "print", "done", "failed"}
  /\ idx \in 1..(Len(narrations) + 1)
  /\ run \in 1..MaxRuns
  /\ dirsteps \in 0..1
  /\ scene.pc \in {"idle", "construct", "rendered", "failed"}
  /\ DOMAIN files \subseteq AllPaths

(***************************************************************************)
(* Properties                                                              *)
(***************************************************************************)

\* the path the documentation promises for segment i
ExpectedPath(i) == output_dir(script) \o "/" \o narrations[i][1] \o ".mp3"

Segments == 1..Len(narrations)
CalledSegs == {calls[c].seg : c \in DOMAIN calls}
WrittenSegs == {writes[w].seg : w \in DOMAIN writes}
SuccessLine == "All audio files generated successfully!"
Printed(line) == \E l \in DOMAIN stdout : stdout[l] = line

\* C1: after a run in which the directory step and every synthesis call
\* succeeded, every segment has exactly one output file, written once in this
\* run at output_dir/<identifier>.mp3, and the run added no other file.
C1_OneFilePerSegment ==
  pc = "done" =>
    /\ \A i \in Segments :
         /\ ExpectedPath(i) \in DOMAIN files
         /\ files[ExpectedPath(i)].audio \in Audio
         /\ Cardinality({w \in DOMAIN writes : writes[w].seg = i}) = 1
         /\ \A w \in DOMAIN writes :
              writes[w].seg = i => writes[w].path = ExpectedPath(i)
    /\ DOMAIN files \ DOMAIN before.files \subseteq {ExpectedPath(i) : i \in Segments}

C1_Witness ==
  /\ pc = "done"
  /\ Len(narrations) = 2
  /\ narrations[1][1] # narrations[2][1]
  /\ before.files = <<>>
  /\ Cardinality(DOMAIN files) = 2

\* C2: once the synthesis call for segment k has failed, segments 1..k-1 have
\* produced their files and no call and no write exists for segments k+1..N.
C2_StopOnFirstError ==
  \A k \in Segments :
    exc.seg = k =>
      /\ \A j \in 1..(k - 1) :
           /\ j \in WrittenSegs
           /\ ExpectedPath(j) \in DOMAIN files
      /\ \A j \in (k + 1)..Len(narrations) :
           /\ j \notin CalledSegs
           /\ j \notin WrittenSegs
      /\ inflight = {}

C2_Witness ==
  /\ pc = "failed"
  /\ Len(narrations) = 3
  /\ exc.seg = 2
  /\ WrittenSegs = {1}

\* C3: in each of the four scripts, if output_dir does not exist when the run
\* starts, the run has created it before any synthesis call is attempted.
C3_DirCreatedBeforeSynthesis ==
  (before.dirKind = "absent" /\ calls # <<>>) => dirKind = "dir"

\* C4: at most one synthesis call is in flight, it is the latest one made, and
\* the calls are made in list order: the c-th call is for the c-th segment.
C4_SequentialInOrder ==
  /\ Cardinality(inflight) <= 1
  /\ \A call \in inflight : call.seg = Len(calls)
  /\ \A c \in DOMAIN calls :
       /\ calls[c].seg = c
       /\ calls[c].request.text = narrations[c][2]
       /\ c < Len(calls) => c \in WrittenSegs

C4_Witness ==
  /\ Len(calls) = 3
  /\ Cardinality(inflight) = 1
  /\ WrittenSegs = {1, 2}

\* the directory step of this run has succeeded (the archive copy has none)
DirStepOk == HasMakedirs(script) => dirKind = "dir"
Terminated == pc \in {"done", "failed"}

\* C5 as stated: given an empty segment list the run completes successfully,
\* with the success message, no exception, no service call and no file written.
C5_EmptyListAlwaysSucceeds ==
  (narrations = <<>> /\ Terminated) =>
    /\ pc = "done"
    /\ Printed(SuccessLine)
    /\ exc = NoExc
    /\ calls = <<>>
    /\ writes = <<>>
    /\ files = before.files

\* C5 amended: given an empty segment list no service call is ever made and no
\* file is ever written, and the run completes successfully whenever its
\* directory step succeeds.
C5_EmptyListSucceeds ==
  narrations = <<>> =>
    /\ calls = <<>>
    /\ writes = <<>>
    /\ inflight = {}
    /\ files = before.files
    /\ (Terminated /\ DirStepOk) =>
         /\ pc = "done"
         /\ Printed(SuccessLine)
         /\ exc = NoExc

C5_Witness ==
  /\ narrations = <<>>
  /\ pc = "done"
  /\ HasMakedirs(script)
  /\ before.dirKind = "absent"
  /\ dirKind = "dir"

\* C6: when two segments of one list have the same identifier, the generator
\* accepts the later one like any other (its call is made and its save can
\* return); once it is written, the earlier one was synthesized and written
\* too, to the same path, and as long as no later call targets that path the
\* file holds the later segment's clip.
C6_LastWriteWins ==
  \A i, j \in Segments :
    (i < j /\ narrations[i][1] = narrations[j][1]) =>
      /\ (pc = "loop" /\ idx = j) => ENABLED ForNext
      /\ (pc = "save" /\ idx = j /\ dirKind = "dir") => ENABLED SaveReturns
      /\ j \in WrittenSegs =>
           /\ i \in CalledSegs /\ j \in CalledSegs
           /\ i \in WrittenSegs
           /\ \A v, w \in DOMAIN writes :
                (writes[v].seg = i /\ writes[w].seg = j) =>
                  /\ writes[v].path = writes[w].path
                  /\ writes[w].path = ExpectedPath(j)
                  /\ v < w
           /\ (\A c \in DOMAIN calls :
                 calls[c].seg > j => calls[c].path # ExpectedPath(j)) =>
                /\ files[ExpectedPath(j)].text = narrations[j][2]
                /\ files[ExpectedPath(j)].audio \in Audio

C6_Witness ==
  /\ pc = "done"
  /\ Len(narrations) = 2
  /\ narrations[1][1] = narrations[2][1]
  /\ narrations[1][2] # narrations[2][2]
  /\ files[ExpectedPath(1)].text = narrations[2][2]

\* C7: when two runs on the same list and directory both succeed, the set of
\* file names in the directory after the later run equals the set after the
\* earlier one, whatever audio the service returned.
C7_IdempotentNaming ==
  /\ \A r, q \in DOMAIN history :
       (history[r].outcome = "done" /\ history[q].outcome = "done") =>
         history[r].names = history[q].names
  /\ (run > 1 /\ pc = "done" /\ history[run - 1].outcome = "done") =>
       DOMAIN files = DOMAIN before.files

C7_Witness ==
  /\ run = 2
  /\ pc = "done"
  /\ history[1].outcome = "done"
  /\ Len(narrations) = 2
  /\ files # before.files

\* C8: whatever files exist, the loop starts at the first segment and never
\* advances past a segment without a synthesis call for it; a successful run
\* makes exactly len(narrations) calls and rewrites every segment's file.
C8_NoSkipNoResume ==
  /\ pc \in {"makedirs", "header"} => idx = 1 /\ calls = <<>>
  /\ pc = "loop" => CalledSegs = 1..(idx - 1)
  /\ pc \in {"save", "print"} => CalledSegs = 1..idx
  /\ pc = "done" =>
       /\ Len(calls) = Len(narrations)
       /\ Len(writes) = Len(narrations)
       /\ WrittenSegs = Segments
       /\ \A i \in Segments : files[ExpectedPath(i)].audio \in Audio

C8_Witness ==
  /\ run = 2
  /\ history[1].outcome = "failed"
  /\ \E i \in Segments : ExpectedPath(i) \in DOMAIN before.files
                         /\ before.files[ExpectedPath(i)].audio \in Audio
  /\ pc = "done"
  /\ Len(narrations) = 3

HeaderLines ==
  {"Generating " \o ToString(Len(narrations)) \o " audio files...",
   "Using voice: en-US-AndrewNeural",
   "Output directory: " \o output_dir(script),
   ""}
ProgressLines == {"Generated: " \o ExpectedPath(i) : i \in Segments}

\* C9: the run ends with the success message and no exception exactly when
\* the directory step and every segment's synthesis succeeded; a failed run
\* ends with the exception, never prints the success message and prints no
\* summary of what succeeded.
C9_SuccessIffAllSucceeded ==
  /\ Terminated =>
       ((pc = "done" /\ Printed(SuccessLine) /\ exc = NoExc)
          <=> (DirStepOk /\ Segments \subseteq WrittenSegs))
  /\ Printed(SuccessLine) => pc = "done"
  /\ pc = "failed" =>
       /\ exc # NoExc
       /\ \A l \in DOMAIN stdout : stdout[l] \in HeaderLines \cup ProgressLines

C9_Witness ==
  /\ pc = "failed"
  /\ exc.seg = 3
  /\ Len(stdout) = 6

\* C10: in one run each segment's synthesis is attempted at most once, an
\* exception always ends the run, and after it no further synthesis call is
\* made in that run.
C10_NoRetry ==
  /\ [](/\ \A i \in Segments :
             Cardinality({c \in DOMAIN calls : calls[c].seg = i}) <= 1
        /\ exc # NoExc => pc = "failed" /\ inflight = {})
  /\ [][exc # NoExc => (calls' = calls \/ run' = run + 1)]_vars

C10_Witness ==
  /\ pc = "failed"
  /\ exc.seg = 1
  /\ Len(narrations) = 3
  /\ Len(calls) = 1
  /\ run = MaxRuns

\* the paths of the synthesis calls in flight
InflightPaths == {call.path : call \in inflight}
WrittenPaths == {writes[w].path : w \in DOMAIN writes}

\* C11 as stated: the step in which a synthesis call fails leaves every file
\* written earlier in this run present and unchanged.
C11_WrittenFilesUnchangedOnFailure ==
  [][(pc = "save" /\ pc' = "failed") =>
       \A p \in WrittenPaths : p \in DOMAIN files' /\ files'[p] = files[p]]_vars

\* C11 amended: the failing step deletes no file, and leaves every file written
\* earlier in this run unchanged unless the failing segment has the same
\* identifier, hence the same path; the aborted run changes nothing afterwards.
C11_NoRollback ==
  /\ [][(pc = "save" /\ pc' = "failed") =>
          /\ DOMAIN files \subseteq DOMAIN files'
          /\ \A p \in WrittenPaths \ InflightPaths : files'[p] = files[p]]_vars
  /\ [][pc = "failed" => files' = files]_vars
  /\ [](pc = "failed" => WrittenPaths \subseteq DOMAIN files)

C11_Witness ==
  /\ pc = "failed"
  /\ exc.seg = 3
  /\ narrations[1][1] # narrations[2][1]
  /\ \A p \in WrittenPaths : files[p].audio \in Audio
  /\ Cardinality(WrittenPaths) = 2

\* the segments whose generate_audio call has returned in this run
ReturnedSegs == 1..(idx - 1)

\* C12: when communicate.save has returned for a segment, its file
\* output_dir/<identifier>.mp3 exists and holds a complete, non-empty clip of
\* that segment's text; it still exists after generate_audio has returned, and
\* is still that clip as long as no later call targets the same path.
C12_FileExistsOnReturn ==
  /\ pc = "print" =>
       /\ ExpectedPath(idx) \in DOMAIN files
       /\ files[ExpectedPath(idx)].audio \in Audio
       /\ files[ExpectedPath(idx)].text = narrations[idx][2]
  /\ \A i \in ReturnedSegs :
       /\ ExpectedPath(i) \in DOMAIN files
       /\ (\A c \in DOMAIN calls : calls[c].seg > i => calls[c].path # ExpectedPath(i))
            => files[ExpectedPath(i)].audio \in Audio

C12_Witness ==
  /\ pc = "print"
  /\ idx = 2
  /\ before.dirKind = "absent"
  /\ narrations[1][1] # narrations[2][1]
  /\ Cardinality(DOMAIN files) = 2

\* the voice configuration of a request
VoiceConfig(request) ==
  [voice |-> request.voice, rate |-> request.rate, pitch |-> request.pitch]

\* C13: every synthesis call, in every run of every copy of the script, is
\* made with voice en-US-AndrewNeural, rate -5% and pitch +0Hz, whatever the
\* segment's identifier and text.
C13_UniformVoiceConfig ==
  /\ \A c \in DOMAIN calls :
       VoiceConfig(calls[c].request) =
         [voice |-> "en-US-AndrewNeural", rate |-> "-5%", pitch |-> "+0Hz"]
  /\ \A call \in inflight :
       VoiceConfig(call.request) =
         [voice |-> "en-US-AndrewNeural", rate |-> "-5%", pitch |-> "+0Hz"]
  /\ \A c, d \in DOMAIN calls :
       VoiceConfig(calls[c].request) = VoiceConfig(calls[d].request)

C13_Witness ==
  /\ run = 2
  /\ Len(calls) = 2
  /\ calls[1].request.text # calls[2].request.text
  /\ calls[1].path # calls[2].path
  /\ inflight # {}

\* C14: in each of the four embedded lists no two segments have the same
\* identifier, so no two segments have the same output path; the lists have
\* 14, 14, 13 and 14 entries (archive, fridge, three laws, trilogy) and a
\* successful run writes that many distinct files.
C14_UniqueIdentifiers ==
  /\ \A i, j \in Segments :
       i # j => /\ narrations[i][1] # narrations[j][1]
                /\ ExpectedPath(i) # ExpectedPath(j)
  /\ Len(narrations) =
       CASE script = "ska_animation_archive" -> 14
         [] script = "the_fridge_case" -> 14
         [] script = "the_three_laws_of_intelligence" -> 13
         [] script = "the_trilogy" -> 14
  /\ Cardinality(WrittenPaths) = Len(writes)
  /\ pc = "done" =>
       /\ Cardinality(WrittenPaths) = Len(narrations)
       /\ Cardinality({p \in DOMAIN files : files[p].audio \in Audio}) = Len(narrations)

C14_Witness ==
  /\ pc = "done"
  /\ script = "the_three_laws_of_intelligence"
  /\ before.files = <<>>
  /\ Cardinality(DOMAIN files) = 13

\* C15: the directory step succeeds and changes nothing when output_dir is
\* already a directory (so a second application equals the first), creates it
\* when it is absent and creatable, and otherwise ends the run with an OSError
\* before anything else happens.
C15_EnsureDirectory ==
  [][pc = "makedirs" =>
       /\ files' = files
       /\ calls' = <<>>
       /\ CASE dirKind = "dir" ->
                 pc' = "header" /\ dirKind' = "dir" /\ exc' = NoExc
            [] dirKind = "absent" /\ creatable ->
                 pc' = "header" /\ dirKind' = "dir" /\ exc' = NoExc
            [] OTHER ->
                 pc' = "failed" /\ dirKind' = dirKind /\ exc'.type = "OSError"]_vars

C15_Witness ==
  /\ run = 2
  /\ pc = "header"
  /\ history[1].outcome = "done"
  /\ before.dirKind = "dir"
  /\ before.files # <<>>
  /\ files = before.files

CallsFor(i) == {c \in DOMAIN calls : calls[c].seg = i}
WritesFor(i) == {w \in DOMAIN writes : writes[w].seg = i}

\* the segments the loop has reached in this run
AttemptedSegs ==
  IF pc \in {"makedirs", "header"} THEN {}
  ELSE {i \in Segments :
          \/ i < idx
          \/ i = idx /\ pc \in {"save", "print"}
          \/ i = idx /\ pc = "failed" /\ exc.seg = i}

\* C16: every segment the loop has reached has exactly one service call and at
\* most one file write, no other segment has any; a successful run has made
\* len(narrations) calls and len(narrations) writes.
C16_OneCallOneWrite ==
  /\ \A i \in Segments :
       /\ Cardinality(CallsFor(i)) = IF i \in AttemptedSegs THEN 1 ELSE 0
       /\ Cardinality(WritesFor(i)) <= Cardinality(CallsFor(i))
  /\ \A c \in DOMAIN calls : calls[c].seg \in Segments
  /\ \A w \in DOMAIN writes : writes[w].seg \in Segments
  /\ pc = "done" =>
       /\ Len(calls) = Len(narrations)
       /\ Len(writes) = Len(narrations)
       /\ \A i \in Segments : Cardinality(WritesFor(i)) = 1

C16_Witness ==
  /\ pc = "done"
  /\ Len(narrations) = 3
  /\ Len(calls) = 3
  /\ Len(writes) = 3
  /\ Cardinality(DOMAIN files) = 2

DistinctIdentifiers ==
  \A i, j \in Segments : i # j => narrations[i][1] # narrations[j][1]

\* C17: a step changes no file other than the file of the call in flight and
\* creates no other file; with pairwise distinct identifiers, a file written
\* by a completed segment is not modified again in the same run.
C17_ExclusiveOutputFile ==
  /\ [][/\ \A p \in DOMAIN files \ InflightPaths :
             p \in DOMAIN files' /\ files'[p] = files[p]
        /\ DOMAIN files' \ DOMAIN files \subseteq InflightPaths
        /\ \A call \in inflight : call.path = ExpectedPath(call.seg)]_vars
  /\ [][(DistinctIdentifiers /\ run' = run) =>
          \A p \in WrittenPaths : p \in DOMAIN files' /\ files'[p] = files[p]]_vars

C17_Witness ==
  /\ pc = "print"
  /\ idx = 2
  /\ Len(narrations) = 2
  /\ DistinctIdentifiers
  /\ files[ExpectedPath(1)].audio \in Audio
  /\ files[ExpectedPath(2)].audio \in Audio

\* the files that this run has created or changed so far
TouchedPaths ==
  {p \in DOMAIN files : p \notin DOMAIN before.files \/ files[p] # before.files[p]}

\* C18: every file a run has created or changed is the file
\* output_dir/<identifier>.mp3 of a segment the loop has reached, the run
\* deletes no file, and it creates nothing before the loop.
C18_OnlySegmentFiles ==
  /\ TouchedPaths \subseteq
       {output_dir(script) \o "/" \o narrations[i][1] \o ".mp3" : i \in AttemptedSegs}
  /\ DOMAIN before.files \subseteq DOMAIN files
  /\ pc \in {"makedirs", "header"} => files = before.files
  /\ WrittenPaths \subseteq TouchedPaths \cup DOMAIN before.files

C18_Witness ==
  /\ pc = "done"
  /\ Len(narrations) = 1
  /\ Cardinality(DOMAIN before.files) = 2
  /\ Cardinality(TouchedPaths) = 1
  /\ \E p \in DOMAIN files : files[p].audio = "old"

\* the rearrangements of the segment list
Perms == {q \in [Segments -> Segments] : \A i, j \in Segments : q[i] = q[j] => i = j}
Permuted(q) == [i \in Segments |-> narrations[q[i]]]

PathOfSegment(seg) == output_dir(script) \o "/" \o seg[1] \o ".mp3"

\* what a successful run on list L leaves, from the files found at its start:
\* per path the text of the last segment of L with that path, other files as
\* they were
ExpectedTexts(L) ==
  LET paths == {PathOfSegment(L[i]) : i \in DOMAIN L}
      last(p) == CHOOSE i \in DOMAIN L :
                   /\ PathOfSegment(L[i]) = p
                   /\ \A j \in DOMAIN L : PathOfSegment(L[j]) = p => j <= i
  IN [p \in DOMAIN before.files \cup paths |->
        IF p \in paths THEN L[last(p)][2] ELSE before.files[p].text]

TextsOnDisk == [p \in DOMAIN files |-> files[p].text]

\* C19: a successful run leaves, per path, the clip of the last segment with
\* that path, and with pairwise distinct identifiers that result is the same
\* for every rearrangement of the list; the order of the list is the order of
\* the calls.
C19_OrderIndependent ==
  /\ pc = "done" =>
       /\ TextsOnDisk = ExpectedTexts(narrations)
       /\ DistinctIdentifiers =>
            \A q \in Perms : TextsOnDisk = ExpectedTexts(Permuted(q))
  /\ \A c \in DOMAIN calls : calls[c].request.text = narrations[c][2]

C19_Witness ==
  /\ pc = "done"
  /\ Len(narrations) = 2
  /\ narrations[1][1] = "02_part1_title"
  /\ narrations[2][1] = "01_intro"
  /\ narrations[1][2] # narrations[2][2]
  /\ before.files = <<>>

\* the lines main() prints before the loop
HeaderLen == IF HasMakedirs(script) THEN 4 ELSE 3

\* the lines printed in this run between the header and the two final lines:
\* the 'Generated: <path>' lines, in order
Progress ==
  IF Len(stdout) <= HeaderLen THEN <<>>
  ELSE SubSeq(stdout, HeaderLen + 1,
              IF pc = "done" THEN Len(stdout) - 2 ELSE Len(stdout))

\* C20: the l-th progress line is that of segment l and is printed only after
\* segment l's write; when the call for a segment starts, the lines of all
\* earlier segments are out; a failing segment prints none; the number of
\* lines is the number of segments whose generate_audio call has returned,
\* which lags the number of completed writes by one only between a write and
\* its print.
C20_ProgressAfterEach ==
  /\ Len(Progress) = Cardinality(ReturnedSegs)
  /\ \A l \in DOMAIN Progress :
       /\ Progress[l] = "Generated: " \o ExpectedPath(l)
       /\ l \in WrittenSegs
  /\ Len(writes) = Len(Progress) + (IF pc = "print" THEN 1 ELSE 0)
  /\ pc = "save" => Len(Progress) = Len(calls) - 1
  /\ exc.seg > 0 => Len(Progress) = exc.seg - 1
  /\ pc = "done" => Len(Progress) = Len(narrations)

C20_Witness ==
  /\ pc = "failed"
  /\ exc.seg = 3
  /\ Len(Progress) = 2
  /\ Len(writes) = 2
  /\ Len(calls) = 3

\* main() is past the directory step: in the prints, the loop, or terminated
PastDirStep == pc # "makedirs"

\* C21: a run has two phases in a fixed order: os.makedirs is called exactly
\* once per run, before the first synthesis call, and the directory step is
\* never entered again once the run is past it.
C21_TwoPhasesInOrder ==
  /\ [](pc = "makedirs" => dirsteps = 0 /\ calls = <<>>)
  /\ [](PastDirStep => dirsteps = 1)
  /\ [][(PastDirStep /\ run' = run) => (PastDirStep' /\ dirsteps' = dirsteps)]_vars

\* C22: in every state of a run the segments whose synthesis has been called
\* are a prefix 1..k of the list, and the segments whose clip has been written
\* are that prefix or that prefix without its last element k.
C22_PrefixInvariant ==
  LET k == Cardinality(CalledSegs)
  IN /\ CalledSegs = 1..k
     /\ \/ WrittenSegs = 1..k
        \/ WrittenSegs = 1..(k - 1)

C22_Witness ==
  /\ pc = "print"
  /\ Len(narrations) = 3
  /\ CalledSegs = {1, 2}
  /\ WrittenSegs = {1, 2}

\* C23: when every synthesis call eventually returns or raises, every run
\* terminates (a run is left only once it has terminated): with success after
\* exactly len(narrations) calls, or aborted at the first failing call; within
\* a run the loop never goes back to a segment.
C23_Termination ==
  /\ ~Terminated ~> Terminated
  /\ [][run' # run => Terminated]_vars
  /\ [](pc = "done" => Len(calls) = Len(narrations) /\ exc = NoExc)
  /\ [](pc = "failed" => Len(calls) = exc.seg /\ exc # NoExc)
  /\ [][run' = run => idx' >= idx]_vars

C23_Witness ==
  /\ pc = "done"
  /\ run = MaxRuns
  /\ Len(calls) = 3
  /\ history[1].outcome = "failed"

\* os.makedirs was called in this run on a path that is a non-directory or
\* that cannot be created
DirStepFailed ==
  /\ dirsteps = 1
  /\ \/ before.dirKind = "file"
     \/ before.dirKind = "absent" /\ ~creatable

\* C24: when the directory step fails, the run is aborted by the OSError with
\* no synthesis call made, none in flight, and no file written or changed.
C24_DirFailureAborts ==
  DirStepFailed =>
    /\ pc = "failed"
    /\ exc = [type |-> "OSError", seg |-> 0]
    /\ calls = <<>>
    /\ inflight = {}
    /\ writes = <<>>
    /\ files = before.files
    /\ dirKind = before.dirKind

C24_Witness ==
  /\ DirStepFailed
  /\ pc = "failed"
  /\ before.dirKind = "file"
  /\ Len(narrations) = 3

\* the paths a scene passes to add_sound, the paths its generator writes
ScenePaths(s) ==
  UNION {{SoundFile(s, Sections(s)[i][j]) : j \in DOMAIN Sections(s)[i]} :
           i \in DOMAIN Sections(s)}
GeneratorPaths(s) ==
  {OutputFile(output_dir(s), EmbeddedNames(s)[i]) : i \in DOMAIN EmbeddedNames(s)}

\* the sounds added so far, as a set
SoundsAdded == {scene.sounds[k] : k \in DOMAIN scene.sounds}

\* C25: for each of the four pairs the scene loads exactly the paths its
\* generator writes; after a successful generator run every file the scene
\* asks for exists, no add_sound fails, and a rendered scene has used every
\* file the generator wrote.
C25_PathAgreement ==
  /\ \A s \in Scripts : ScenePaths(s) = GeneratorPaths(s)
  /\ pc = "done" =>
       /\ ScenePaths(script) \subseteq DOMAIN files
       /\ scene.pc # "failed"
       /\ scene.pc = "rendered" => SoundsAdded = WrittenPaths

C25_Witness ==
  /\ pc = "done"
  /\ scene.pc = "rendered"
  /\ script = "the_fridge_case"
  /\ Cardinality(SoundsAdded) = 14

RECURSIVE Flatten(_)
Flatten(seqs) == IF seqs = <<>> THEN <<>> ELSE Head(seqs) \o Flatten(Tail(seqs))

\* the generator's files in the order of its narrations list
GeneratorOrder ==
  [i \in DOMAIN narrations |-> OutputFile(output_dir(script), name(i))]

====
